---------------------------- MODULE Spec2Model ----------------------------
(***************************************************************************)
(* Temporal alignment and signal reconstruction of schwerdt-lab-to-nwb.    *)
(*                                                                         *)
(* Time is exact.  A Unix timestamp (a float of seconds in the source) is  *)
(* an integer number of ticks, SubUs ticks to the microsecond, so that two *)
(* timestamps can differ by less than the resolution of a datetime.  A     *)
(* datetime is a record [wall, aware]: wall is the wall-clock reading in   *)
(* whole microseconds, aware tells whether a tzinfo is attached.  A        *)
(* timedelta, and the float of seconds total_seconds() makes of it, is an  *)
(* integer number of microseconds.                                         *)
(***************************************************************************)
EXTENDS Integers, Sequences, FiniteSets, TLC

(***************************************************************************)
(* Bounds of the model.                                                    *)
(***************************************************************************)
MaxTrials == 3
\* ticks of a Unix timestamp per microsecond
SubUs == 3
\* offset of the local zone from UTC, in microseconds
UtcOffset == 1
\* hardware events of the first trial of a session
MaxEvents == 2
\* direct calls of convert_timestamps_to_relative_timestamps
MaxStamps == 3
MaxWall == 3
\* direct calls of the two reconstructions
MaxSegments == 3
MaxStart == 13
\* native timestamps of the raw FSCV samples
MaxSample == 4
\* sessions of one batch
MaxSessions == 3
\* calls of set_aligned_starting_time on one interface, and the largest shift
MaxShifts == 3
MaxShift == 2

(***************************************************************************)
(* Program constants.  The scaled ones keep their role: StubTrials is the  *)
(* 100 of the stub slices, TimeOffset the 30 s between the start of a      *)
(* recorded LFP segment and the trial's midpoint, HalfTrial the 30 s from  *)
(* a trial's midpoint to its start and stop, LfpPeriod the sample period   *)
(* of the 1000 Hz LFP; the last three are in microseconds.                 *)
(***************************************************************************)
trial_start_code == 128
StubTrials == 2
TimeOffset == 2
HalfTrial == 2
LfpPeriod == 1

VARIABLES
    \* the trial list file read by BehaviorInterface.read_data
    ts, NlxEventTTL, NlxEventTS,
    \* the LFP file: the number of trial segments and their common length
    lfp_num_segments, lfp_segment_len,
    \* the converter and the conversion options
    data_interface_objects, stub_test, session_start_time, event_mapping,
    lfp_trial_start_times,
    \* BehaviorInterface._aligned_start_times
    behavior_aligned_start_times,
    \* the NWB file under construction
    nwb_trials, nwb_events, nwb_lfp,
    \* position of run_conversion and the exception that ended it
    pc, error,
    \* arguments and result of a direct call of one of the utilities
    call_args, call_result

vars == <<ts, NlxEventTTL, NlxEventTS, lfp_num_segments, lfp_segment_len,
          data_interface_objects, stub_test, session_start_time, event_mapping,
          lfp_trial_start_times,
          behavior_aligned_start_times,
          nwb_trials, nwb_events, nwb_lfp, pc, error, call_args, call_result>>

file_vars == <<ts, NlxEventTTL, NlxEventTS, lfp_num_segments, lfp_segment_len>>
option_vars == <<data_interface_objects, stub_test, session_start_time, event_mapping>>
call_vars == <<call_args, call_result>>

(***************************************************************************)
(* Python and numpy primitives.                                            *)
(***************************************************************************)
Abs(x) == IF x < 0 THEN -x ELSE x

Min(a, b) == IF a < b THEN a ELSE b

\* round(n / d) for d > 0, ties to the even integer (Python round, np.round)
RoundHalfEven(n, d) ==
    LET q == n \div d
        r == n % d
    IN  IF 2 * r < d THEN q
        ELSE IF 2 * r > d THEN q + 1
        ELSE IF q % 2 = 0 THEN q ELSE q + 1

\* s[:n] for n >= 0
Prefix(s, n) == SubSeq(s, 1, Min(n, Len(s)))

\* s[:-m] for m >= 0: Python reads -0 as 0, so s[:-0] is s[:0], the empty slice
DropTail(s, m) == IF m = 0 THEN <<>> ELSE SubSeq(s, 1, Len(s) - m)

\* s[m:] for m >= 0
DropHead(s, m) == SubSeq(s, m + 1, Len(s))

RECURSIVE Concat(_)
Concat(parts) ==
    IF parts = <<>> THEN <<>> ELSE Head(parts) \o Concat(Tail(parts))

\* a mask that also drops the sample one tick after the bound
RECURSIVE MaskWellAbove(_, _, _)
MaskWellAbove(a, t, bound) ==
    IF t = <<>> THEN <<>>
    ELSE (IF Head(t) > bound + 1 THEN <<Head(a)>> ELSE <<>>)
         \o MaskWellAbove(Tail(a), Tail(t), bound)

\* a[mask] with mask = (t > bound), t and a of equal length
RECURSIVE MaskAbove(_, _, _)
MaskAbove(a, t, bound) ==
    IF t = <<>> THEN <<>>
    ELSE (IF Head(t) > bound THEN <<Head(a)>> ELSE <<>>)
         \o MaskAbove(Tail(a), Tail(t), bound)

\* a time axis that is not checked
Unchecked(t) == TRUE

\* np.all(np.diff(t) > 0)
StrictlyIncreasing(t) == \A i \in 1..(Len(t) - 1) : t[i + 1] - t[i] > 0

NonDecreasing(t) == \A i \in 1..(Len(t) - 1) : t[i] <= t[i + 1]

Ok(v) == [raised |-> "none", value |-> v]
Raise(e) == [raised |-> e, value |-> <<>>]

(***************************************************************************)
(* utils.py: the clock conversions.                                        *)
(***************************************************************************)
Naive(w) == [wall |-> w, aware |-> FALSE]
Aware(w) == [wall |-> w, aware |-> TRUE]

\* datetime.replace(tzinfo=None): the wall-clock fields are kept
StripTz(dt) == [wall |-> dt.wall, aware |-> FALSE]

\* datetime.fromtimestamp(t): local, naive, rounded to the microsecond
FromTimestamp(t) == Naive(RoundHalfEven(t, SubUs) + UtcOffset)

convert_unix_timestamps_to_datetime(timestamps) ==
    [i \in 1..Len(timestamps) |-> FromTimestamp(timestamps[i])]

Absent == [present |-> FALSE, dt |-> Naive(0)]
Present(dt) == [present |-> TRUE, dt |-> dt]

\* a reference that is the last timestamp instead of the first
LastAsReference(timestamps, start_time) ==
    IF start_time.present THEN start_time.dt ELSE timestamps[Len(timestamps)]

\* start_time or timestamps[0] (line 52): start_time is an optional datetime
Reference(timestamps, start_time) ==
    IF start_time.present THEN start_time.dt ELSE timestamps[1]

\* a check that lets every offset pass
NoneNegative(relative_times) == FALSE

\* any(relative_time < 0 for relative_time in relative_times) (line 54)
AnyNegative(relative_times) ==
    \E i \in 1..Len(relative_times) : relative_times[i] < 0

\* aware - naive is a TypeError; naive - naive is the difference of the
\* wall-clock readings
convert_timestamps_to_relative_timestamps(timestamps, start_time) ==
    IF ~start_time.present /\ timestamps = <<>> THEN Raise("IndexError")
    ELSE LET origin == StripTz(Reference(timestamps, start_time))
             relative_times == [i \in 1..Len(timestamps) |-> timestamps[i].wall - origin.wall]
         IN  IF \E i \in 1..Len(timestamps) : timestamps[i].aware THEN Raise("TypeError")
             ELSE IF AnyNegative(relative_times) THEN Raise("ValueError")
             ELSE Ok(relative_times)

(***************************************************************************)
(* converters/nwbconverter.py: alignment of the trial start times.         *)
(***************************************************************************)
\* NlxEventTS[trial][np.where(NlxEventTTL[trial] == code)[0]]
RECURSIVE TimesWithCode(_, _, _)
TimesWithCode(codes, times, code) ==
    IF codes = <<>> THEN <<>>
    ELSE (IF Head(codes) = code THEN <<Head(times)>> ELSE <<>>)
         \o TimesWithCode(Tail(codes), Tail(times), code)

\* abs(dt - reference) of two naive datetimes
AbsDelta(dt, reference) == Abs(dt.wall - reference.wall)

\* min(candidates, key=lambda dt: abs(dt - reference)): a left-to-right scan
\* that replaces the running minimum only by a strictly smaller key
RECURSIVE MinScan(_, _, _, _)
MinScan(candidates, reference, i, best) ==
    IF i > Len(candidates) THEN best
    ELSE MinScan(candidates, reference, i + 1,
                 IF AbsDelta(candidates[i], reference) < AbsDelta(best, reference)
                 THEN candidates[i] ELSE best)

PyMin(candidates, reference) ==
    IF candidates = <<>> THEN Raise("ValueError")
    ELSE Ok(MinScan(candidates, reference, 2, candidates[1]))

\* the aligned start of one trial (lines 52-56)
AlignTrial(soft, codes, times) ==
    PyMin(convert_unix_timestamps_to_datetime(TimesWithCode(codes, times, trial_start_code)),
          FromTimestamp(soft))

\* a loop that leaves out a trial without a trial-start event
RECURSIVE AlignLoopSkipping(_, _, _, _, _)
AlignLoopSkipping(soft, codes, times, i, acc) ==
    IF i > Len(soft) THEN Ok(acc)
    ELSE LET one == AlignTrial(soft[i], codes[i], times[i])
         IN  AlignLoopSkipping(soft, codes, times, i + 1,
                               IF one.raised # "none" THEN acc ELSE Append(acc, one.value))

\* the loop over the trials (lines 50-57): the first trial without a
\* trial-start event ends the call
RECURSIVE AlignLoop(_, _, _, _, _)
AlignLoop(soft, codes, times, i, acc) ==
    IF i > Len(soft) THEN Ok(acc)
    ELSE LET one == AlignTrial(soft[i], codes[i], times[i])
         IN  IF one.raised # "none" THEN Raise(one.raised)
             ELSE AlignLoop(soft, codes, times, i + 1, Append(acc, one.value))

AlignTrials(soft, codes, times) == AlignLoop(soft, codes, times, 1, <<>>)

\* a stub slice that keeps the last trials instead of the first
StubTruncateTail(aligned, stub) ==
    IF stub /\ Len(aligned) > StubTrials
    THEN SubSeq(aligned, Len(aligned) - StubTrials + 1, Len(aligned))
    ELSE aligned

\* aligned_trial_start_times[:100] under stub_test (lines 59-60)
StubTruncate(aligned, stub) == IF stub THEN Prefix(aligned, StubTrials) ELSE aligned

Unset == [set |-> FALSE, value |-> <<>>]
SetTo(v) == [set |-> TRUE, value |-> v]

(***************************************************************************)
(* Reconstruction of a continuous signal from trial segments.  A sample    *)
(* is a pair <<segment, index>>, NaN the pair <<0, 0>>.  The sampling      *)
(* frequency enters as its period 1 / fs, in microseconds, so gap * fs is  *)
(* the exact quotient gap / period.                                        *)
(***************************************************************************)
NaN == <<0, 0>>

\* segment i of a file of equal-length segments
Segment(i, len) == [k \in 1..len |-> <<i, k>>]

Segments(n, len) == [i \in 1..n |-> Segment(i, len)]

\* times that begin one period after the start
TrialTimeFromOne(start, n, period) == [k \in 1..n |-> start + k * period]

\* start + np.arange(n) / fs
TrialTime(start, n, period) == [k \in 1..n |-> start + (k - 1) * period]

\* a gap that gets one timestamp however long it is
GapTimeSingle(last, n_gap, period) == [j \in 1..Min(n_gap, 1) |-> last + j * period]

\* last + np.arange(1, n_gap + 1) / fs
GapTime(last, n_gap, period) == [j \in 1..n_gap |-> last + j * period]

\* np.full(n_gap, np.nan)
GapSignal(n_gap) == [j \in 1..n_gap |-> NaN]

Last(s) == s[Len(s)]

Parts(time_parts, signal_parts) ==
    [raised |-> "none", time_parts |-> time_parts, signal_parts |-> signal_parts]

Broken(e) == [raised |-> e, time_parts |-> <<>>, signal_parts |-> <<>>]

\* np.concatenate, the check of the time axis and the return
Finish(st) ==
    IF st.raised # "none" THEN [raised |-> st.raised, time |-> <<>>, signal |-> <<>>]
    ELSE LET continuous_time == Concat(st.time_parts)
         IN  IF ~StrictlyIncreasing(continuous_time)
             THEN [raised |-> "ValueError", time |-> <<>>, signal |-> <<>>]
             ELSE [raised |-> "none", time |-> continuous_time,
                   signal |-> Concat(st.signal_parts)]

\* utils.py, one pass of the loop of lines 169-190 for trial_index = i - 1
UtilsStep(st, i, trial_data, segment_start_time, period, num_samples_per_trial) ==
    LET trial_time == TrialTime(segment_start_time, num_samples_per_trial, period)
    IN  IF st.raised # "none" THEN st
        ELSE IF i = 1 THEN Parts(<<trial_time>>, <<trial_data>>)
        ELSE IF Last(st.time_parts) = <<>> \/ trial_time = <<>> THEN Broken("IndexError")
        ELSE LET last_timestamp == Last(Last(st.time_parts))
                 gap == trial_time[1] - last_timestamp - period
                 n_gap == RoundHalfEven(gap, period)
                 filled == IF gap > period
                           THEN Parts(Append(st.time_parts, GapTime(last_timestamp, n_gap, period)),
                                      Append(st.signal_parts, GapSignal(n_gap)))
                           ELSE st
             IN  Parts(Append(filled.time_parts, MaskAbove(trial_time, trial_time, last_timestamp)),
                       Append(filled.signal_parts, MaskAbove(trial_data, trial_time, last_timestamp)))

\* the lists of parts after the first k trials
RECURSIVE UtilsParts(_, _, _, _)
UtilsParts(trial_aligned_data, aligned_start_times, period, k) ==
    IF k = 0 THEN Parts(<<>>, <<>>)
    ELSE UtilsStep(UtilsParts(trial_aligned_data, aligned_start_times, period, k - 1),
                   k, trial_aligned_data[k], aligned_start_times[k], period,
                   Len(trial_aligned_data[1]))

\* a check that lets fewer segments than start times pass
MoreSegments(trial_aligned_data, aligned_start_times) ==
    Len(trial_aligned_data) > Len(aligned_start_times)

\* line 163
CountsDiffer(trial_aligned_data, aligned_start_times) ==
    Len(trial_aligned_data) # Len(aligned_start_times)

reconstruct_continuous_signal_from_trial_aligned_data(trial_aligned_data, aligned_start_times, period) ==
    IF CountsDiffer(trial_aligned_data, aligned_start_times)
    THEN [raised |-> "ValueError", time |-> <<>>, signal |-> <<>>]
    ELSE IF trial_aligned_data = <<>>
    THEN [raised |-> "IndexError", time |-> <<>>, signal |-> <<>>]
    ELSE Finish(UtilsParts(trial_aligned_data, aligned_start_times, period,
                           Len(trial_aligned_data)))

\* int(0.1 * len(trial_data))
Margin(len) == len \div 10

\* lfp_interface.py, one pass of the loop of lines 189-223 for i - 1
LfpStep(st, i, trial_data, trial_start_times, time_offset, period, num_samples_per_trial) ==
    IF st.raised # "none" THEN st
    ELSE IF i > Len(trial_start_times) THEN Broken("IndexError")
    ELSE
    LET trial_start == trial_start_times[i] - time_offset
        trial_time == TrialTime(trial_start, num_samples_per_trial, period)
    IN  IF i > 1 /\ (trial_time = <<>> \/ Last(st.time_parts) = <<>>) THEN Broken("IndexError")
        ELSE
        LET margin == IF i > 1 /\ trial_time[1] < Last(Last(st.time_parts))
                      THEN Margin(Len(trial_data)) ELSE 0
            middle_time == DropHead(trial_time, margin)
            middle_data == DropHead(trial_data, margin)
        IN  IF i = 1 THEN Parts(<<middle_time>>, <<middle_data>>)
            ELSE
            LET last_timestamp == Last(Last(st.time_parts))
                gap == middle_time[1] - last_timestamp - period
                n_gap == RoundHalfEven(gap, period)
                overlap == trial_time[margin + 1] - trial_time[1]
                n == Len(st.time_parts)
                before == IF gap > period
                          THEN Parts(Append(st.time_parts, GapTime(last_timestamp, n_gap, period)),
                                     Append(st.signal_parts, GapSignal(n_gap)))
                          ELSE Parts([st.time_parts EXCEPT ![n] = DropTail(@, margin)],
                                     [st.signal_parts EXCEPT ![n] = DropTail(@, margin)])
                bound == IF gap > period THEN last_timestamp ELSE last_timestamp - overlap
            IN  Parts(Append(before.time_parts, MaskAbove(middle_time, middle_time, bound)),
                      Append(before.signal_parts, MaskAbove(middle_data, middle_time, bound)))

RECURSIVE LfpParts(_, _, _, _, _)
LfpParts(lfp_per_trial, trial_start_times, time_offset, period, k) ==
    IF k = 0 THEN Parts(<<>>, <<>>)
    ELSE LfpStep(LfpParts(lfp_per_trial, trial_start_times, time_offset, period, k - 1),
                 k, lfp_per_trial[k], trial_start_times, time_offset, period,
                 Len(lfp_per_trial[1]))

\* lfp_data: the segments of the file; the stub slice is lines 178-181
reconstruct_continuous_signal_from_trials(lfp_data, trial_start_times, time_offset, stub, period) ==
    LET num_trials == IF stub THEN Min(Len(lfp_data), StubTrials) ELSE Len(lfp_data)
        lfp_per_trial == Prefix(lfp_data, num_trials)
    IN  IF lfp_per_trial = <<>>
        THEN [raised |-> "IndexError", time |-> <<>>, signal |-> <<>>]
        ELSE Finish(LfpParts(lfp_per_trial, trial_start_times, time_offset, period, num_trials))

(***************************************************************************)
(* converters/nwbconverter.py: the raw FSCV stream against the trial       *)
(* starts.  An interpolated value is the exact fraction num / den.         *)
(***************************************************************************)
Whole(v) == [num |-> v, den |-> 1]

\* an interpolation that answers with the anchor to the right of x
NpInterpNext(x, xp, fp) ==
    IF x < xp[1] THEN Whole(fp[1])
    ELSE IF x >= xp[Len(xp)] THEN Whole(fp[Len(xp)])
    ELSE LET j == CHOOSE j \in 1..(Len(xp) - 1) : xp[j] <= x /\ x < xp[j + 1]
         IN  Whole(fp[j + 1])

\* np.interp(x, xp, fp) for increasing xp: fp[0] left of the first point,
\* fp[-1] right of the last, the chord between two neighbours otherwise
NpInterp(x, xp, fp) ==
    IF x < xp[1] THEN Whole(fp[1])
    ELSE IF x >= xp[Len(xp)] THEN Whole(fp[Len(xp)])
    ELSE LET j == CHOOSE j \in 1..(Len(xp) - 1) : xp[j] <= x /\ x < xp[j + 1]
         IN  [num |-> fp[j] * (xp[j + 1] - xp[j]) + (x - xp[j]) * (fp[j + 1] - fp[j]),
              den |-> xp[j + 1] - xp[j]]

\* lines 76-91: the anchors and the interpolated timestamps of the samples
fscv_aligned_timestamps(original_timestamps, aligned_trial_start_times, tsfscv, start_time) ==
    LET relative_timestamps ==
            convert_timestamps_to_relative_timestamps(aligned_trial_start_times, start_time)
        unaligned_relative_trial_start_times_from_fscv ==
            convert_timestamps_to_relative_timestamps(
                convert_unix_timestamps_to_datetime(
                    Prefix(tsfscv, Len(aligned_trial_start_times))),
                start_time)
        xp == unaligned_relative_trial_start_times_from_fscv.value
        fp == relative_timestamps.value
    IN  IF relative_timestamps.raised # "none"
        THEN [raised |-> relative_timestamps.raised, xp |-> <<>>, fp |-> <<>>, value |-> <<>>]
        ELSE IF unaligned_relative_trial_start_times_from_fscv.raised # "none"
        THEN [raised |-> unaligned_relative_trial_start_times_from_fscv.raised,
              xp |-> <<>>, fp |-> <<>>, value |-> <<>>]
        ELSE IF Len(xp) # Len(fp) \/ xp = <<>>
        THEN [raised |-> "ValueError", xp |-> <<>>, fp |-> <<>>, value |-> <<>>]
        ELSE [raised |-> "none", xp |-> xp, fp |-> fp,
              value |-> [i \in 1..Len(original_timestamps) |->
                            NpInterp(original_timestamps[i], xp, fp)]]

\* float + number
AddWhole(v, w) == [num |-> v.num + w * v.den, den |-> v.den]

\* lines 92-95 on an interface whose timestamps are those of its files:
\* set_aligned_starting_time(aligned_timestamps[0]) adds the starting time
\* to every timestamp (fscv_interface.py lines 171-178), and get_timestamps
\* returns the sums
fscv_retimed_timestamps(original_timestamps, aligned_timestamps) ==
    [i \in 1..Len(original_timestamps) |->
        AddWhole(aligned_timestamps[1], original_timestamps[i])]

(***************************************************************************)
(* interfaces/behavior_interface.py: events and trials.                    *)
(***************************************************************************)
\* the keys of a dict in insertion order
RECURSIVE FirstOccurrences(_, _)
FirstOccurrences(codes, seen) ==
    IF codes = <<>> THEN <<>>
    ELSE IF Head(codes) \in seen THEN FirstOccurrences(Tail(codes), seen)
    ELSE <<Head(codes)>> \o FirstOccurrences(Tail(codes), seen \cup {Head(codes)})

\* the loop of lines 234-240: the codes and the relative times of all
\* events, trial after trial, or the exception of the first failing trial
RECURSIVE EventLoop(_, _, _, _, _, _)
EventLoop(unix_event_times, event_types, start_time, i, codes, times) ==
    IF i > Len(unix_event_times) THEN Ok([codes |-> codes, times |-> times])
    ELSE LET relative_event_times ==
                 convert_timestamps_to_relative_timestamps(
                     convert_unix_timestamps_to_datetime(unix_event_times[i]), start_time)
         IN  IF relative_event_times.raised # "none" THEN Raise(relative_event_times.raised)
             ELSE EventLoop(unix_event_times, event_types, start_time, i + 1,
                            codes \o event_types[i], times \o relative_event_times.value)

\* a table that gets an event type for every code
EventTypesOfAll(all, mapping) ==
    LET keys == FirstOccurrences(all.codes, {})
    IN  [j \in 1..Len(keys) |->
            [code |-> keys[j], event_times |-> TimesWithCode(all.codes, all.times, keys[j])]]

\* the event types added to the AnnotatedEventsTable (lines 243-253)
EventTypes(all, mapping) ==
    LET keys == SelectSeq(FirstOccurrences(all.codes, {}), LAMBDA c : c \in mapping)
    IN  [j \in 1..Len(keys) |->
            [code |-> keys[j], event_times |-> TimesWithCode(all.codes, all.times, keys[j])]]

\* the trials table of a new file: no column of its own, no row
NoTrials == [columns |-> {}, rows |-> <<>>]

\* rows that begin at the midpoint
TrialRowsFromMidpoint(relative_trial_midpoint_times) ==
    [i \in 1..Len(relative_trial_midpoint_times) |->
        [start_time |-> relative_trial_midpoint_times[i],
         stop_time |-> relative_trial_midpoint_times[i] + 2 * HalfTrial,
         midpoint_time |-> relative_trial_midpoint_times[i]]]

\* a check of the count that never fails
NeverMismatch(aligned_start_times, num_trials) == FALSE

\* lines 145-146: aligned start times are set and are not one per trial
LengthMismatch(aligned_start_times, num_trials) ==
    aligned_start_times.set /\ Len(aligned_start_times.value) # num_trials

\* the rows of the trials table (lines 162-184)
TrialRows(relative_trial_midpoint_times) ==
    [i \in 1..Len(relative_trial_midpoint_times) |->
        [start_time |-> relative_trial_midpoint_times[i] - HalfTrial,
         stop_time |-> relative_trial_midpoint_times[i] + HalfTrial,
         midpoint_time |-> relative_trial_midpoint_times[i]]]

(***************************************************************************)
(* One session: run_conversion aligns the interfaces, then lets each       *)
(* interface add its data in the order convert_session.py registers them   *)
(* (LFP before Behavior), then writes the file.  An exception ends it.     *)
(***************************************************************************)
StageAfter(stage) ==
    IF stage = "align" /\ "LFP" \in data_interface_objects THEN "lfp"
    ELSE IF stage \in {"align", "lfp"} /\ "Behavior" \in data_interface_objects THEN "events"
    ELSE "write"

NoLfp == [set |-> FALSE, time |-> <<>>, signal |-> <<>>]

\* a check of the mapping that never fails
MappingNeverMissing(kwargs) == FALSE

\* lines 176-185: a trial list file without the mapping of its TTL codes
MappingMissing(kwargs) ==
    /\ "behavior_trlist_file_path" \in kwargs.paths
    /\ ~kwargs.ttl_code_to_event_name.set

\* lines 133-193: the interfaces session_to_nwb creates from the paths
InterfacesOf(paths) ==
    (IF "raw_fscv_recording_folder_path" \in paths THEN {"FSCVRecording"} ELSE {})
    \cup (IF "lfp_file_path" \in paths THEN {"LFP"} ELSE {})
    \cup (IF "behavior_trlist_file_path" \in paths THEN {"Behavior"} ELSE {})

\* session_to_nwb up to the construction of the converter (line 196); the
\* actions that follow are its run_conversion
session_to_nwb ==
    /\ pc = "setup"
    /\ IF MappingMissing(call_args)
       THEN /\ pc' = "failed"
            /\ error' = "ValueError"
            /\ UNCHANGED <<data_interface_objects, event_mapping>>
       ELSE /\ data_interface_objects' = InterfacesOf(call_args.paths)
            /\ event_mapping' = call_args.ttl_code_to_event_name.value
            /\ pc' = "align"
            /\ error' = error
    /\ UNCHANGED <<file_vars, stub_test, session_start_time, lfp_trial_start_times,
                   behavior_aligned_start_times, nwb_trials, nwb_events, nwb_lfp,
                   call_vars>>

temporally_align_data_interfaces ==
    /\ pc = "align"
    /\ IF "Behavior" \notin data_interface_objects
       THEN /\ pc' = StageAfter("align")
            /\ UNCHANGED <<error, behavior_aligned_start_times, lfp_trial_start_times>>
       ELSE LET all == AlignTrials(ts, NlxEventTTL, NlxEventTS)
                aligned_trial_start_times == StubTruncate(all.value, stub_test)
            IN  IF all.raised # "none"
                THEN /\ pc' = "failed"
                     /\ error' = all.raised
                     /\ UNCHANGED <<behavior_aligned_start_times, lfp_trial_start_times>>
                ELSE /\ behavior_aligned_start_times' = SetTo(aligned_trial_start_times)
                     /\ lfp_trial_start_times' =
                            IF "LFP" \in data_interface_objects
                            THEN SetTo(aligned_trial_start_times)
                            ELSE lfp_trial_start_times
                     \* line 74 passes stub_test to get_original_timestamps, which
                     \* takes no such argument (fscv_interface.py line 153)
                     /\ IF "FSCVRecording" \in data_interface_objects
                        THEN pc' = "failed" /\ error' = "TypeError"
                        ELSE pc' = StageAfter("align") /\ error' = error
    /\ UNCHANGED <<file_vars, option_vars, nwb_trials, nwb_events, nwb_lfp, call_vars>>

add_lfp_to_nwbfile ==
    /\ pc = "lfp"
    /\ LET lfp_data == Segments(lfp_num_segments, lfp_segment_len)
           num_trials == IF stub_test THEN Min(Len(lfp_data), StubTrials) ELSE Len(lfp_data)
           trial_midpoint_times_dt == Prefix(lfp_trial_start_times.value, num_trials)
           relative_trial_start_times ==
               convert_timestamps_to_relative_timestamps(trial_midpoint_times_dt,
                                                         session_start_time)
           out == reconstruct_continuous_signal_from_trials(
                      lfp_data, relative_trial_start_times.value, TimeOffset, stub_test,
                      LfpPeriod)
           raised == IF ~lfp_trial_start_times.set THEN "TypeError"
                     ELSE IF relative_trial_start_times.raised # "none"
                          THEN relative_trial_start_times.raised
                          ELSE out.raised
       IN  IF raised # "none"
           THEN pc' = "failed" /\ error' = raised /\ nwb_lfp' = nwb_lfp
           ELSE /\ pc' = StageAfter("lfp")
                /\ error' = error
                /\ nwb_lfp' = [set |-> TRUE, time |-> out.time, signal |-> out.signal]
    /\ UNCHANGED <<file_vars, option_vars, behavior_aligned_start_times,
                   lfp_trial_start_times, nwb_trials, nwb_events, call_vars>>

add_events_to_nwbfile ==
    /\ pc = "events"
    /\ LET num_trials == IF stub_test THEN Min(Len(NlxEventTS), StubTrials)
                         ELSE Len(NlxEventTS)
           all == EventLoop(Prefix(NlxEventTS, num_trials), Prefix(NlxEventTTL, num_trials),
                            session_start_time, 1, <<>>, <<>>)
       IN  IF all.raised # "none"
           THEN pc' = "failed" /\ error' = all.raised /\ nwb_events' = nwb_events
           ELSE /\ pc' = "trials"
                /\ error' = error
                /\ nwb_events' = SetTo(EventTypes(all.value, event_mapping))
    /\ UNCHANGED <<file_vars, option_vars, behavior_aligned_start_times,
                   lfp_trial_start_times, nwb_trials, nwb_lfp, call_vars>>

add_trials_to_nwbfile ==
    /\ pc = "trials"
    /\ LET num_trials == IF stub_test THEN Min(Len(ts), StubTrials) ELSE Len(ts)
           trial_midpoint_times_dt ==
               IF behavior_aligned_start_times.set
               THEN behavior_aligned_start_times.value
               ELSE convert_unix_timestamps_to_datetime(Prefix(ts, num_trials))
           relative_trial_midpoint_times ==
               convert_timestamps_to_relative_timestamps(trial_midpoint_times_dt,
                                                         session_start_time)
           raised == IF LengthMismatch(behavior_aligned_start_times, num_trials)
                     THEN "ValueError"
                     ELSE relative_trial_midpoint_times.raised
       IN  IF raised # "none"
           THEN pc' = "failed" /\ error' = raised /\ nwb_trials' = nwb_trials
           ELSE /\ pc' = "write"
                /\ error' = error
                /\ nwb_trials' = [columns |-> nwb_trials.columns \cup {"midpoint_time"},
                                   rows |-> nwb_trials.rows
                                            \o TrialRows(relative_trial_midpoint_times.value)]
    /\ UNCHANGED <<file_vars, option_vars, behavior_aligned_start_times,
                   lfp_trial_start_times, nwb_events, nwb_lfp, call_vars>>

write_nwbfile ==
    /\ pc = "write"
    /\ pc' = "done"
    /\ UNCHANGED <<file_vars, option_vars, behavior_aligned_start_times,
                   lfp_trial_start_times, nwb_trials, nwb_events, nwb_lfp, error,
                   call_vars>>

(***************************************************************************)
(* The sessions.  A trial is its software timestamp and its hardware       *)
(* events, codes and timestamps in step.  The first trial of a session of  *)
(* AlignInit takes its events from ticks that fall on both sides of a      *)
(* microsecond boundary; the trials of Init take at most one event each,   *)
(* far enough apart for the LFP segments to overlap, abut or leave a gap.  *)
(***************************************************************************)
Codes == {trial_start_code, 64}

EventLists(ticks, max_len) ==
    UNION {{[codes |-> c, times |-> t] : c \in [1..n -> Codes], t \in [1..n -> ticks]} :
           n \in 0..max_len}

TrialChoices(softs, ticks, max_len) ==
    {[soft |-> s, codes |-> e.codes, times |-> e.times] :
        s \in softs, e \in EventLists(ticks, max_len)}

RichTrials == TrialChoices({2, 3}, {1, 2, 4, 5}, MaxEvents)
LeanTrials == TrialChoices({3}, {1, 5, 12}, 1)

\* the trials of a session: as LeanTrials, or with the trial start event a
\* whole LFP segment after the tick 1
AbutTick == 1 + 10 * LfpPeriod * SubUs
SessionTrials == TrialChoices({3}, {1, 5, 12, AbutTick}, 1)

SessionStartTimes == {Absent, Present(Naive(2)), Present(Aware(2))}

TrialListFile(trials) ==
    /\ ts = [i \in 1..Len(trials) |-> trials[i].soft]
    /\ NlxEventTTL = [i \in 1..Len(trials) |-> trials[i].codes]
    /\ NlxEventTS = [i \in 1..Len(trials) |-> trials[i].times]

NoCall == [fn |-> "none"]

Fresh ==
    /\ behavior_aligned_start_times = Unset
    /\ lfp_trial_start_times = Unset
    /\ nwb_trials = NoTrials
    /\ nwb_events = Unset
    /\ nwb_lfp = NoLfp
    /\ error = "none"

\* the keyword arguments of session_to_nwb: which of the optional paths are
\* given, and the mapping of TTL codes to event names, an optional value
NoMapping == [set |-> FALSE, value |-> {}]
Mapping(codes) == [set |-> TRUE, value |-> codes]

Kwargs(paths, mapping) ==
    [fn |-> "session_to_nwb", paths |-> paths, ttl_code_to_event_name |-> mapping]

\* a session has a trial list file exactly when it has trials; the mapping
\* goes with the trial list file and may be forgotten
Init ==
    /\ \E n \in 0..MaxTrials : \E trials \in [1..n -> SessionTrials] :
          /\ TrialListFile(trials)
          /\ \/ /\ n > 0
                /\ \E others \in {{}, {"lfp_file_path"}, {"raw_fscv_recording_folder_path"}} :
                   \E mapping \in {NoMapping, Mapping({trial_start_code})} :
                      call_args = Kwargs({"behavior_trlist_file_path"} \cup others, mapping)
             \/ /\ n = 0
                /\ call_args = Kwargs({"lfp_file_path"}, NoMapping)
    /\ lfp_num_segments \in
           IF "lfp_file_path" \in call_args.paths THEN 1..MaxTrials ELSE {0}
    /\ lfp_segment_len = 10
    /\ stub_test \in BOOLEAN
    /\ session_start_time \in SessionStartTimes
    /\ data_interface_objects = {}
    /\ event_mapping = {}
    /\ Fresh
    /\ pc = "setup"
    /\ call_result = NoCall

Next ==
    \/ session_to_nwb
    \/ temporally_align_data_interfaces
    \/ add_lfp_to_nwbfile
    \/ add_events_to_nwbfile
    \/ add_trials_to_nwbfile
    \/ write_nwbfile

Spec == Init /\ [][Next]_vars

\* sessions of Behavior, with or without LFP, up to the end of the alignment
AlignInit ==
    /\ \E n \in 1..MaxTrials : \E first \in RichTrials : \E rest \in [2..n -> LeanTrials] :
          TrialListFile([i \in 1..n |-> IF i = 1 THEN first ELSE rest[i]])
    /\ data_interface_objects \in {{"Behavior"}, {"Behavior", "LFP"}}
    /\ lfp_num_segments = 0
    /\ lfp_segment_len = 10
    /\ stub_test \in BOOLEAN
    /\ session_start_time = Absent
    /\ event_mapping = {trial_start_code}
    /\ Fresh
    /\ pc = "align"
    /\ call_args = NoCall
    /\ call_result = NoCall

AlignNext == temporally_align_data_interfaces

AlignSpec == AlignInit /\ [][AlignNext]_vars

(***************************************************************************)
(* Properties of the alignment.                                            *)
(***************************************************************************)
\* the positions of the trial-start events of trial i
StartEvents(i) == {j \in 1..Len(NlxEventTTL[i]) : NlxEventTTL[i][j] = trial_start_code}

Aligned == behavior_aligned_start_times.value

\* event j of trial i is the first of the trial-start events of that trial
\* whose distance to the software timestamp is minimal, the distance being
\* taken between the raw timestamps
NearestRaw(i, j) ==
    /\ j \in StartEvents(i)
    /\ \A k \in StartEvents(i) :
          /\ Abs(NlxEventTS[i][j] - ts[i]) <= Abs(NlxEventTS[i][k] - ts[i])
          /\ k < j => Abs(NlxEventTS[i][k] - ts[i]) > Abs(NlxEventTS[i][j] - ts[i])

\* C1, as stated: every aligned start time is the trial-start event of its
\* trial nearest to ts[i], first in order on ties, one per trial in order.
C1_NearestRawTimestamp ==
    behavior_aligned_start_times.set =>
        /\ ~stub_test => Len(Aligned) = Len(ts)
        /\ \A i \in 1..Len(Aligned) :
              \E j \in 1..Len(NlxEventTTL[i]) :
                  NearestRaw(i, j) /\ Aligned[i] = FromTimestamp(NlxEventTS[i][j])

Unalignable(i) == StartEvents(i) = {}

\* C2: once the alignment has run on a session with a trial that has no
\* trial-start event, the call has raised, and neither the Behavior
\* interface nor the LFP options nor the file hold any start time.
C2_UnalignableTrialRaises ==
    (/\ "Behavior" \in data_interface_objects
     /\ pc # "align"
     /\ \E i \in 1..Len(ts) : Unalignable(i)) =>
        /\ pc = "failed"
        /\ error = "ValueError"
        /\ behavior_aligned_start_times = Unset
        /\ lfp_trial_start_times = Unset
        /\ nwb_trials = NoTrials
        /\ nwb_lfp = NoLfp

\* the call raised on a session with LFP whose first trial could be aligned
C2_Witness ==
    /\ pc = "failed"
    /\ "LFP" \in data_interface_objects
    /\ Len(ts) >= 2
    /\ ~Unalignable(1)
    /\ Unalignable(2)

\* the outcome of aligning the first k trials of the session directly
AlignFirst(k) == AlignTrials(Prefix(ts, k), Prefix(NlxEventTTL, k), Prefix(NlxEventTS, k))

\* the outcome of the run on all trials, cut to its first k start times
OutcomeCutTo(k) ==
    IF pc = "failed" THEN Raise(error) ELSE Ok(Prefix(Aligned, k))

\* C6, as stated: the alignment of all trials cut to the first K has the
\* outcome of the alignment of the first K trials, for the K of the stub
\* slice and, the slice not taken, for every K below the number of trials.
C6_PrefixOutcome ==
    pc # "align" =>
        \A k \in 1..(Len(ts) - 1) :
            (stub_test => k = StubTrials) => OutcomeCutTo(k) = AlignFirst(k)

\* C6, amended: when the alignment of all trials succeeds, its first K
\* start times are those of the alignment of the first K trials, and the
\* stub slice is the prefix of StubTrials start times of the alignment of
\* all trials; a trial past the slice that cannot be aligned still makes
\* the call raise.
C6_PrefixOfFullAlignment ==
    /\ behavior_aligned_start_times.set =>
          /\ Len(Aligned) = IF stub_test THEN Min(Len(ts), StubTrials) ELSE Len(ts)
          /\ \A k \in 1..Len(Aligned) : Ok(Prefix(Aligned, k)) = AlignFirst(k)
    /\ (pc # "align" /\ \E i \in 1..Len(ts) : Unalignable(i)) => pc = "failed"

\* the stub slice cut an alignment of more than StubTrials trials whose
\* start times are not all the same
C6_Witness ==
    /\ behavior_aligned_start_times.set
    /\ stub_test
    /\ Len(ts) > StubTrials
    /\ AlignFirst(Len(ts)).raised = "none"
    /\ AlignFirst(Len(ts)).value[1] # AlignFirst(Len(ts)).value[Len(ts)]

Walls(datetimes) == [i \in 1..Len(datetimes) |-> datetimes[i].wall]

\* the start times the LFP series of the file was reconstructed from
LfpStartsUsed ==
    Prefix(lfp_trial_start_times.value,
           IF stub_test THEN Min(lfp_num_segments, StubTrials) ELSE lfp_num_segments)

\* C7: a sequence of aligned start times that decreases somewhere is never
\* written: no trial of the file comes from it, the conversion does not
\* complete, and the LFP series of the file is reconstructed from start
\* times that do not decrease.
C7_NonMonotonicNeverWritten ==
    behavior_aligned_start_times.set =>
        /\ ~NonDecreasing(Walls(Aligned)) => nwb_trials = NoTrials /\ pc # "done"
        /\ nwb_lfp.set => NonDecreasing(Walls(LfpStartsUsed))

(***************************************************************************)
(* Direct calls of the utilities: the arguments are drawn at the start,    *)
(* the call computes the result.  No session is converted meanwhile.       *)
(***************************************************************************)
NoSession ==
    /\ ts = <<>>
    /\ NlxEventTTL = <<>>
    /\ NlxEventTS = <<>>
    /\ lfp_num_segments = 0
    /\ lfp_segment_len = 0
    /\ data_interface_objects = {}
    /\ stub_test = FALSE
    /\ session_start_time = Absent
    /\ event_mapping = {}
    /\ Fresh
    /\ pc = "idle"

session_vars == <<file_vars, option_vars, lfp_trial_start_times,
                  behavior_aligned_start_times, nwb_trials, nwb_events, nwb_lfp, pc, error>>

\* the naive datetimes handed over by convert_unix_timestamps_to_datetime
NaiveLists ==
    UNION {[1..n -> {Naive(w) : w \in 0..MaxWall}] : n \in 0..MaxStamps}

\* the same readings with a tzinfo attached
AwareLists == {[i \in 1..Len(t) |-> Aware(t[i].wall)] : t \in NaiveLists}

DatetimeLists == NaiveLists \cup AwareLists

StartTimes ==
    {Absent} \cup {Present(Naive(w)) : w \in 0..MaxWall}
             \cup {Present(Aware(w)) : w \in 0..MaxWall}

RelativeInit ==
    /\ NoSession
    /\ \E t \in DatetimeLists : \E s \in StartTimes :
          call_args = [fn |-> "to_relative", timestamps |-> t, start_time |-> s]
    /\ call_result = NoCall

call_convert_timestamps_to_relative_timestamps ==
    /\ call_args.fn = "to_relative"
    /\ call_result = NoCall
    /\ call_result' =
           [fn |-> "to_relative",
            out |-> convert_timestamps_to_relative_timestamps(call_args.timestamps,
                                                              call_args.start_time)]
    /\ UNCHANGED <<session_vars, call_args>>

RelativeNext == call_convert_timestamps_to_relative_timestamps

RelativeSpec == RelativeInit /\ [][RelativeNext]_vars

Returned == call_result.fn # "none" /\ call_result.out.raised = "none"

\* the wall-clock reading the offsets of the call are counted from
ReferenceWall ==
    IF call_args.start_time.present THEN call_args.start_time.dt.wall
    ELSE call_args.timestamps[1].wall

\* C8: a call on naive timestamps, one of them before the reference, raises
\* ValueError and returns nothing; any other such call with a reference returns one offset per
\* timestamp, the timestamp minus the reference, none negative, with the
\* order and the pairwise differences of the timestamps.
C8_NegativeOffsetRaises ==
    (call_result.fn = "to_relative"
        /\ (call_args.timestamps # <<>> \/ call_args.start_time.present)
        /\ call_args.timestamps \in NaiveLists) =>
        LET T == call_args.timestamps
            out == call_result.out
        IN  IF \E i \in 1..Len(T) : T[i].wall < ReferenceWall
            THEN out.raised = "ValueError" /\ out.value = <<>>
            ELSE /\ out.raised = "none"
                 /\ Len(out.value) = Len(T)
                 /\ \A i \in 1..Len(T) :
                       out.value[i] = T[i].wall - ReferenceWall /\ out.value[i] >= 0
                 /\ \A i, j \in 1..Len(T) :
                       /\ out.value[i] - out.value[j] = T[i].wall - T[j].wall
                       /\ (out.value[i] <= out.value[j]) <=> (T[i].wall <= T[j].wall)

\* a call against a given start time raised on its last timestamp only
C8_Witness ==
    /\ call_result.fn = "to_relative"
    /\ call_args.start_time.present
    /\ Len(call_args.timestamps) = 3
    /\ call_args.timestamps[1].wall > call_args.start_time.dt.wall
    /\ call_args.timestamps[2].wall = call_args.start_time.dt.wall
    /\ call_args.timestamps[3].wall < call_args.start_time.dt.wall
    /\ call_result.out.raised = "ValueError"

\* C9: a call without start time that returns counts from its first
\* timestamp, so its first offset is 0.
C9_FirstOffsetZero ==
    (call_result.fn = "to_relative" /\ ~call_args.start_time.present /\ Returned) =>
        /\ call_result.out.value[1] = 0
        /\ \A i \in 1..Len(call_args.timestamps) :
              call_result.out.value[i] =
                  call_args.timestamps[i].wall - call_args.timestamps[1].wall

\* a call without start time returned for timestamps that rise from a
\* first one that is not 0
C9_Witness ==
    /\ call_result.fn = "to_relative"
    /\ ~call_args.start_time.present
    /\ Returned
    /\ Len(call_args.timestamps) >= 2
    /\ call_args.timestamps[1].wall > 0
    /\ call_args.timestamps[2].wall > call_args.timestamps[1].wall

(***************************************************************************)
(* Direct calls of the two reconstructions, on files of equal-length       *)
(* segments: short segments at both periods for utils.py, segments long    *)
(* enough for a margin of one sample for the LFP interface.                *)
(***************************************************************************)
\* segments long enough for a margin of several samples, and the distance
\* that puts the second of two of them near the end of the first
LongLen == 40
LongShift == 33

\* start times for calls of utils.py on another number of segments
MismatchedStarts == UNION {[1..m -> {0, MaxStart}] : m \in 0..MaxSegments}

ReconstructInit ==
    /\ NoSession
    /\ \/ \E num \in 0..MaxSegments : \E starts \in MismatchedStarts :
             /\ num # Len(starts)
             /\ call_args = [fn |-> "utils", num |-> num, len |-> 3, starts |-> starts,
                             period |-> 1, stub |-> FALSE]
       \/ \E n \in 1..MaxSegments : \E starts \in [1..n -> 0..MaxStart] :
          \/ \E period \in {1, 2} : \E len \in (IF n = 2 THEN {2, 3, 4} ELSE {3}) :
                call_args = [fn |-> "utils", num |-> n, len |-> len, starts |-> starts,
                             period |-> period, stub |-> FALSE]
          \* up to two segments on the grid of the samples; more of them at
          \* half a period from it as well
          \/ \E stub \in BOOLEAN :
             \E period \in (IF n <= 2 THEN {LfpPeriod, 2 * LfpPeriod} ELSE {2 * LfpPeriod}) :
                call_args = [fn |-> "lfp", num |-> n, len |-> 10, starts |-> starts,
                             period |-> period, stub |-> stub]
          \* two long segments, the second starting near the end of the first
          \/ /\ n = 2
             /\ call_args = [fn |-> "lfp", num |-> n, len |-> LongLen,
                             starts |-> [starts EXCEPT ![2] = @ + LongShift],
                             period |-> LfpPeriod, stub |-> FALSE]
    /\ call_result = NoCall

call_reconstruct_continuous_signal_from_trial_aligned_data ==
    /\ call_args.fn = "utils"
    /\ call_result = NoCall
    /\ call_result' =
           [fn |-> "utils",
            out |-> reconstruct_continuous_signal_from_trial_aligned_data(
                        Segments(call_args.num, call_args.len), call_args.starts,
                        call_args.period)]
    /\ UNCHANGED <<session_vars, call_args>>

call_reconstruct_continuous_signal_from_trials ==
    /\ call_args.fn = "lfp"
    /\ call_result = NoCall
    /\ call_result' =
           [fn |-> "lfp",
            out |-> reconstruct_continuous_signal_from_trials(
                        Segments(call_args.num, call_args.len), call_args.starts,
                        TimeOffset, call_args.stub, call_args.period)]
    /\ UNCHANGED <<session_vars, call_args>>

ReconstructNext ==
    \/ call_reconstruct_continuous_signal_from_trial_aligned_data
    \/ call_reconstruct_continuous_signal_from_trials

ReconstructSpec == ReconstructInit /\ [][ReconstructNext]_vars

Ascending(t) == \A i, j \in 1..Len(t) : i < j => t[i] < t[j]

\* the lists of parts the loop of the call has built after k segments
PartsAfter(k) ==
    IF call_args.fn = "utils"
    THEN UtilsParts(Segments(call_args.num, call_args.len), call_args.starts,
                    call_args.period, k)
    ELSE LfpParts(Segments(IF call_args.stub THEN Min(call_args.num, StubTrials)
                           ELSE call_args.num, call_args.len),
                  call_args.starts, TimeOffset, call_args.period, k)

Processed ==
    IF call_args.fn = "lfp" /\ call_args.stub THEN Min(call_args.num, StubTrials)
    ELSE call_args.num

\* C3: a reconstruction that returns returns a strictly increasing time
\* axis, and one whose parts do not concatenate to a strictly increasing
\* axis raises.
C3_ReturnedAxisIncreases ==
    call_result.fn \in {"utils", "lfp"} =>
        /\ call_result.out.raised = "none" => Ascending(call_result.out.time)
        /\ (/\ call_args.num = Len(call_args.starts)
            /\ PartsAfter(Processed).raised = "none"
            /\ ~Ascending(Concat(PartsAfter(Processed).time_parts))) =>
               call_result.out.raised = "ValueError"

\* the LFP reconstruction raised on parts that run backwards in time, the
\* other one returned an axis with NaN samples in it
C3_Witness ==
    \/ /\ call_result.fn = "lfp"
       /\ PartsAfter(Processed).raised = "none"
       /\ ~Ascending(Concat(PartsAfter(Processed).time_parts))
       /\ call_result.out.raised = "ValueError"
    \/ /\ call_result.fn = "utils"
       /\ call_result.out.raised = "none"
       /\ call_args.num = 3
       /\ \E i \in 1..Len(call_result.out.signal) : call_result.out.signal[i] = NaN

\* what segment i > 1 of a call of utils.py met: the last emitted time and
\* the gap to it
TLast(i) == Last(Concat(PartsAfter(i - 1).time_parts))
Gap(i) == call_args.starts[i] - TLast(i) - call_args.period
Emitted(i) ==
    [time |-> DropHead(Concat(PartsAfter(i).time_parts),
                       Len(Concat(PartsAfter(i - 1).time_parts))),
     signal |-> DropHead(Concat(PartsAfter(i).signal_parts),
                         Len(Concat(PartsAfter(i - 1).signal_parts)))]
SampleTime(i, k) == call_args.starts[i] + (k - 1) * call_args.period

UtilsReturned == call_result.fn = "utils" /\ call_result.out.raised = "none"

\* C4: in a call of utils.py that returns, a segment i > 1 with a gap of
\* more than one period is emitted as round(gap * fs) NaN samples at
\* T_last + j / fs, j = 1..n_gap, followed by all its samples; two segments
\* with such a gap give L + n_gap + L samples.
C4_GapFilledWithNaN ==
    UtilsReturned =>
        /\ \A i \in 2..call_args.num :
              Gap(i) > call_args.period =>
                  LET n_gap == RoundHalfEven(Gap(i), call_args.period)
                      L == call_args.len
                  IN  /\ Len(Emitted(i).time) = n_gap + L
                      /\ Len(Emitted(i).signal) = n_gap + L
                      /\ \A j \in 1..n_gap :
                            /\ Emitted(i).signal[j] = NaN
                            /\ Emitted(i).time[j] = TLast(i) + j * call_args.period
                      /\ \A k \in 1..L :
                            /\ Emitted(i).signal[n_gap + k] = <<i, k>>
                            /\ Emitted(i).time[n_gap + k] = SampleTime(i, k)
        /\ (call_args.num = 2 /\ Gap(2) > call_args.period) =>
              Len(call_result.out.time) =
                  2 * call_args.len + RoundHalfEven(Gap(2), call_args.period)
        /\ call_result.out.time = Concat(PartsAfter(call_args.num).time_parts)
        /\ call_result.out.signal = Concat(PartsAfter(call_args.num).signal_parts)

\* a returned call of three segments in which the third follows a gap of
\* two and a half periods
C4_Witness ==
    /\ UtilsReturned
    /\ call_args.num = 3
    /\ call_args.period = 2
    /\ Gap(3) = 5

\* C5: in a call of utils.py that returns, a segment i > 1 with a gap of at
\* most one period is emitted without NaN sample, as its samples later than
\* T_last, in order: exactly its leading samples at or before T_last are
\* dropped.
C5_OverlapClipped ==
    UtilsReturned =>
        \A i \in 2..call_args.num :
            Gap(i) <= call_args.period =>
                \E d \in 0..call_args.len :
                    /\ \A k \in 1..d : SampleTime(i, k) <= TLast(i)
                    /\ \A k \in (d + 1)..call_args.len : SampleTime(i, k) > TLast(i)
                    /\ Emitted(i).signal = [k \in 1..(call_args.len - d) |-> <<i, d + k>>]
                    /\ Emitted(i).time =
                           [k \in 1..(call_args.len - d) |-> SampleTime(i, d + k)]

\* a returned call in which the second segment abuts the first and the
\* third starts on the last sample of the second
C5_Witness ==
    /\ UtilsReturned
    /\ call_args.num = 3
    /\ Gap(2) = 0
    /\ call_args.starts[3] = TLast(3)

(***************************************************************************)
(* Direct runs of the re-timing of the raw FSCV stream (lines 76-91) on    *)
(* trial starts that increase on the FSCV clock.                           *)
(***************************************************************************)
\* one tick per microsecond for the trial starts on the FSCV clock, and one
\* more in the last of these microseconds
FscvTicks == {k * SubUs : k \in 1..4} \cup {4 * SubUs + 1}

FscvTrialStarts ==
    {t \in [1..MaxTrials -> FscvTicks] : \A i \in 1..(MaxTrials - 1) : t[i] < t[i + 1]}

AlignedStarts == UNION {[1..n -> {Naive(2), Naive(3), Naive(5)}] : n \in 1..MaxTrials}

Samples == UNION {[1..n -> 0..MaxSample] : n \in 1..2}

InterpInit ==
    /\ NoSession
    /\ \E x \in Samples : \E a \in AlignedStarts : \E t \in FscvTrialStarts :
       \E s \in SessionStartTimes :
          call_args = [fn |-> "fscv", original_timestamps |-> x,
                       aligned_trial_start_times |-> a, tsfscv |-> t, start_time |-> s]
    /\ call_result = NoCall

call_fscv_aligned_timestamps ==
    /\ call_args.fn = "fscv"
    /\ call_result = NoCall
    /\ LET out == fscv_aligned_timestamps(call_args.original_timestamps,
                                          call_args.aligned_trial_start_times,
                                          call_args.tsfscv, call_args.start_time)
       IN  call_result' =
               [fn |-> "fscv",
                out |-> out,
                timestamps |-> IF out.raised # "none" THEN Unset
                               ELSE SetTo(fscv_retimed_timestamps(
                                              call_args.original_timestamps, out.value))]
    /\ UNCHANGED <<session_vars, call_args>>

InterpNext == call_fscv_aligned_timestamps

InterpSpec == InterpInit /\ [][InterpNext]_vars

\* the fraction v is the value at x of the line through (x1, f1), (x2, f2)
OnLine(v, x, x1, f1, x2, f2) ==
    v.num * (x2 - x1) = v.den * (f1 * (x2 - x1) + (x - x1) * (f2 - f1))

\* C10: a sample before the first anchor or after the last one is mapped
\* onto the line through the two anchors nearest to it.
C10_LinearExtrapolation ==
    (call_result.fn = "fscv" /\ Returned /\ Len(call_result.out.xp) >= 2) =>
        LET xp == call_result.out.xp
            fp == call_result.out.fp
            n == Len(xp)
        IN  \A i \in 1..Len(call_args.original_timestamps) :
                LET x == call_args.original_timestamps[i]
                    v == call_result.out.value[i]
                IN  /\ x < xp[1] => OnLine(v, x, xp[1], fp[1], xp[2], fp[2])
                    /\ x > xp[n] => OnLine(v, x, xp[n - 1], fp[n - 1], xp[n], fp[n])

FscvReturned == call_result.fn = "fscv" /\ Returned

\* the fraction v is the whole number w
IsWhole(v, w) == v.num = w * v.den

FolderNames == {"day1", "day2"}

NoErrorFiles == [name \in FolderNames |-> 0]

\* the keyword arguments session_to_nwb accepts: a dictionary without
\* neuralynx_folder_path misses a required argument, so the call raises
SessionKwargs ==
    {k \in [has_folder : BOOLEAN, folder : FolderNames, raises : BOOLEAN] :
        /\ ~k.has_folder => k.raises
        /\ ~k.has_folder => k.folder = "day1"}

BatchStart == [fn |-> "dataset_to_nwb", attempted |-> <<>>, error_files |-> NoErrorFiles,
               halted |-> "none"]

\* a pass that lets the exception of the session out of the loop
OneSessionUncaught(st, i, kwargs) ==
    IF kwargs.raises
    THEN [st EXCEPT !.attempted = Append(@, i), !.halted = "Exception"]
    ELSE [st EXCEPT !.attempted = Append(@, i)]

\* one pass of the loop of lines 25-40 for the session at position i
OneSession(st, i, kwargs) ==
    IF ~kwargs.raises THEN [st EXCEPT !.attempted = Append(@, i)]
    ELSE IF ~kwargs.has_folder
         THEN [st EXCEPT !.attempted = Append(@, i), !.halted = "KeyError"]
         ELSE [st EXCEPT !.attempted = Append(@, i), !.error_files[kwargs.folder] = i]

BatchInit ==
    /\ NoSession
    /\ \E n \in 0..MaxSessions : \E sessions \in [1..n -> SessionKwargs] :
          call_args = [fn |-> "dataset_to_nwb", session_to_nwb_kwargs_per_session |-> sessions]
    /\ call_result = BatchStart

dataset_to_nwb_session ==
    /\ call_args.fn = "dataset_to_nwb"
    /\ call_result.halted = "none"
    /\ Len(call_result.attempted) < Len(call_args.session_to_nwb_kwargs_per_session)
    /\ LET i == Len(call_result.attempted) + 1
       IN  call_result' =
               OneSession(call_result, i, call_args.session_to_nwb_kwargs_per_session[i])
    /\ UNCHANGED <<session_vars, call_args>>

BatchNext == dataset_to_nwb_session

\* the loop is a plain for loop: it goes on as long as a session is left
BatchSpec == BatchInit /\ [][BatchNext]_vars /\ WF_vars(BatchNext)

BatchSessions == call_args.session_to_nwb_kwargs_per_session

\* every dictionary of the list names the folder of its session
FoldersNamed == \A i \in 1..Len(BatchSessions) : BatchSessions[i].has_folder

BatchAttempted ==
    /\ call_result.attempted = [j \in 1..Len(call_result.attempted) |-> j]
    /\ Len(call_result.attempted) <= Len(BatchSessions)

BatchRecorded ==
    LET k == Len(call_result.attempted)
    IN  /\ call_result.halted = "none"
        /\ \A j \in 1..k :
              BatchSessions[j].raises => call_result.error_files[BatchSessions[j].folder] >= j
        /\ (k >= 1 /\ BatchSessions[k].raises) =>
              call_result.error_files[BatchSessions[k].folder] = k
        /\ \A name \in FolderNames :
              LET f == call_result.error_files[name]
              IN  f # 0 => f <= k /\ BatchSessions[f].raises /\ BatchSessions[f].folder = name

C13_MissingMappingRaises ==
    (/\ pc # "setup"
     /\ call_args.fn = "session_to_nwb"
     /\ "behavior_trlist_file_path" \in call_args.paths
     /\ ~call_args.ttl_code_to_event_name.set) =>
        /\ pc = "failed"
        /\ error = "ValueError"
        /\ data_interface_objects = {}
        /\ behavior_aligned_start_times = Unset
        /\ lfp_trial_start_times = Unset
        /\ nwb_trials = NoTrials
        /\ nwb_events = Unset
        /\ nwb_lfp = NoLfp

\* the session that raised has an LFP file and two trials that could have
\* been aligned
C13_Witness ==
    /\ pc = "failed"
    /\ call_args.fn = "session_to_nwb"
    /\ call_args.paths = {"behavior_trlist_file_path", "lfp_file_path"}
    /\ ~call_args.ttl_code_to_event_name.set
    /\ Len(ts) = 2
    /\ \A i \in 1..2 : ~Unalignable(i)

\* the number of LFP segments the LFP interface works on
LfpSegmentsUsed == IF stub_test THEN Min(lfp_num_segments, StubTrials) ELSE lfp_num_segments

\* C14: when the number of LFP segments differs from the number of aligned
\* trial start times, the LFP stage works on the first min(segments, start
\* times) of both and does not index past the shorter of the two.
C14_TruncatesToSharedCount ==
    (/\ lfp_trial_start_times.set
     /\ pc \notin {"align", "lfp"}
     /\ LfpSegmentsUsed # Len(lfp_trial_start_times.value)) =>
        /\ error # "IndexError"
        /\ nwb_lfp.set =>
              \A k \in 1..Len(nwb_lfp.signal) :
                  nwb_lfp.signal[k][1] <= Min(LfpSegmentsUsed, Len(lfp_trial_start_times.value))

(***************************************************************************)
(* Properties of the reconstruction, continued.                            *)
(***************************************************************************)
\* a call of utils.py on two segments, the second starting two periods
\* before the last sample of the first
TwoPeriodOverlap ==
    /\ call_result.fn = "utils"
    /\ call_args.num = 2
    /\ Len(call_args.starts) = 2
    /\ call_args.starts[2] =
           call_args.starts[1] + (call_args.len - 1) * call_args.period - 2 * call_args.period

\* the output of a call on two segments that drops the d leading samples
\* of the second and inserts nothing
SecondClippedBy(d) ==
    /\ call_result.out.raised = "none"
    /\ call_result.out.signal =
           Segment(1, call_args.len) \o DropHead(Segment(2, call_args.len), d)
    /\ call_result.out.time =
           TrialTime(call_args.starts[1], call_args.len, call_args.period)
           \o DropHead(TrialTime(call_args.starts[2], call_args.len, call_args.period), d)
    /\ Ascending(call_result.out.time)

\* C15, as stated: the second segment starting two periods before the last
\* sample of the first, exactly its 2 leading samples are dropped, no NaN
\* is inserted and the returned axis is strictly increasing.
C15_TwoLeadingSamplesDropped == TwoPeriodOverlap => SecondClippedBy(2)

\* C15, amended: exactly the leading samples at or before the last sample
\* of the first segment are dropped, which are 3 (the third coincides with
\* that last sample) or all of the segment if it is shorter; no NaN is
\* inserted and the returned axis is strictly increasing.
C15_ThreeLeadingSamplesDropped ==
    TwoPeriodOverlap => SecondClippedBy(Min(call_args.len, 3))

\* two segments of four samples, of which the last of the second survives
C15_Witness ==
    /\ TwoPeriodOverlap
    /\ call_args.len = 4
    /\ Len(call_result.out.signal) = 5
    /\ call_result.out.signal[5] = <<2, 4>>

\* a call of the LFP reconstruction that returned
LfpReturned == call_result.fn = "lfp" /\ call_result.out.raised = "none"

\* the nominal time of sample k (from 1) of segment i (lines 190-191)
LfpSampleTime(i, k) == call_args.starts[i] - TimeOffset + (k - 1) * call_args.period

\* C16: the LFP reconstruction gives sample k of segment i the time
\* (trial_start_times[i] - time_offset) + k / fs, and the first segment is
\* emitted in full: the first L returned samples are those of segment 0 at
\* these times, the first of them at trial_start_times[0] - time_offset.
C16_NominalTimesFirstSegmentInFull ==
    LfpReturned =>
        /\ \A j \in 1..Len(call_result.out.signal) :
              LET sample == call_result.out.signal[j]
              IN  sample # NaN =>
                      call_result.out.time[j] = LfpSampleTime(sample[1], sample[2])
        /\ Len(call_result.out.time) >= call_args.len
        /\ \A k \in 1..call_args.len :
              /\ call_result.out.signal[k] = <<1, k>>
              /\ call_result.out.time[k] = LfpSampleTime(1, k)

\* the samples, each with its time, in the lists of parts after k segments
PairsAfter(k) ==
    LET t == Concat(PartsAfter(k).time_parts)
        x == Concat(PartsAfter(k).signal_parts)
    IN  {<<t[j], x[j]>> : j \in 1..Len(t)}

\* what pass i of the loop took away from the parts built before it, and
\* what it added to them
RemovedBy(i) == PairsAfter(i - 1) \ PairsAfter(i)
AddedBy(i) == PairsAfter(i) \ PairsAfter(i - 1)

\* C19: in the LFP reconstruction, a segment whose first nominal time is
\* not after the last emitted time costs only samples of the overlap: no
\* NaN is inserted, an earlier sample is removed only if its time is at or
\* after the start of the segment, a sample of the segment is dropped only
\* if its time is at or before the last emitted time, and the returned
\* axis is strictly increasing.
C19_OverlapRemovesOnlyOverlap ==
    LfpReturned =>
        /\ Ascending(call_result.out.time)
        /\ \A i \in 2..Processed :
              LfpSampleTime(i, 1) <= TLast(i) =>
                  /\ \A p \in AddedBy(i) : p[2] # NaN
                  /\ \A p \in RemovedBy(i) : p[1] >= LfpSampleTime(i, 1)
                  /\ \A k \in 1..call_args.len :
                        <<LfpSampleTime(i, k), <<i, k>>>> \notin PairsAfter(i) =>
                            LfpSampleTime(i, k) <= TLast(i)

\* C20: a pass of the LFP reconstruction removes at most the margin of 10%
\* of a segment from what was emitted before, and only when its segment
\* starts before the last emitted time; a segment that abuts the previous
\* one or follows it by at most one period removes nothing.
C20_EarlierSamplesKept ==
    LfpReturned =>
        \A i \in 2..Processed :
            /\ Cardinality(RemovedBy(i)) <= Margin(call_args.len)
            /\ RemovedBy(i) # {} => LfpSampleTime(i, 1) < TLast(i)
            /\ (/\ LfpSampleTime(i, 1) > TLast(i)
                /\ LfpSampleTime(i, 1) - TLast(i) - call_args.period <= call_args.period) =>
                   RemovedBy(i) = {}

(***************************************************************************)
(* interfaces/fscv_interface.py: the timestamps of the raw FSCV samples.   *)
(* The interface is the timestamps of its files and its field _timestamps, *)
(* an optional array; shifts records the starting times it was given.      *)
(***************************************************************************)
\* a getter that always reads the files
get_timestamps_of_files(interface) == interface.original_timestamps

\* lines 171-172
get_timestamps(interface) ==
    IF interface.timestamps.set THEN interface.timestamps.value
    ELSE interface.original_timestamps

\* lines 174-175
set_aligned_timestamps(interface, aligned_timestamps) ==
    [interface EXCEPT !.timestamps = SetTo(aligned_timestamps)]

\* array + scalar
Shifted(t, a) == [i \in 1..Len(t) |-> t[i] + a]

ShiftInit ==
    /\ NoSession
    /\ call_args = [fn |-> "FSCVRecordingInterface"]
    /\ \E t \in Samples :
          call_result = [fn |-> "FSCVRecordingInterface", original_timestamps |-> t,
                         timestamps |-> Unset, shifts |-> <<>>]

\* lines 177-178
set_aligned_starting_time ==
    /\ call_args.fn = "FSCVRecordingInterface"
    /\ Len(call_result.shifts) < MaxShifts
    /\ \E aligned_starting_time \in (0 - 1)..MaxShift :
          call_result' =
              [set_aligned_timestamps(
                   call_result, Shifted(get_timestamps(call_result), aligned_starting_time))
               EXCEPT !.shifts = Append(@, aligned_starting_time)]
    /\ UNCHANGED <<session_vars, call_args>>

ShiftNext == set_aligned_starting_time

ShiftSpec == ShiftInit /\ [][ShiftNext]_vars

RECURSIVE Sum(_)
Sum(q) == IF q = <<>> THEN 0 ELSE Head(q) + Sum(Tail(q))

\* C17: get_timestamps returns the timestamps of the files until a
\* starting time is set, and after set_aligned_starting_time(a_1), ...,
\* set_aligned_starting_time(a_k) the timestamps of the files plus
\* a_1 + ... + a_k, so each call adds its a to every timestamp and leaves
\* the differences between samples as they are.
C17_ShiftByConstant ==
    call_result.fn = "FSCVRecordingInterface" =>
        LET now == get_timestamps(call_result)
            files == call_result.original_timestamps
        IN  /\ call_result.shifts = <<>> => now = files /\ ~call_result.timestamps.set
            /\ now = Shifted(files, Sum(call_result.shifts))
            /\ \A i \in 1..(Len(files) - 1) : now[i + 1] - now[i] = files[i + 1] - files[i]

\* three starting times were set on an interface of two samples, not all
\* the same and not adding up to zero
C17_Witness ==
    /\ call_result.fn = "FSCVRecordingInterface"
    /\ Len(call_result.original_timestamps) = 2
    /\ Len(call_result.shifts) = 3
    /\ call_result.shifts[1] # call_result.shifts[2]
    /\ Sum(call_result.shifts) # 0

(***************************************************************************)
(* Properties of the relative timestamps, continued.                       *)
(***************************************************************************)
\* the datetimes of the list without their tzinfo
StripAll(timestamps) == [i \in 1..Len(timestamps) |-> StripTz(timestamps[i])]

\* C18: the outcome of a call depends on the wall-clock readings only: it
\* is the outcome of the call on the same timestamps and the same reference
\* without their timezone information.
C18_TimezoneStrippedOnBothSides ==
    call_result.fn = "to_relative" =>
        call_result.out =
            convert_timestamps_to_relative_timestamps(
                StripAll(call_args.timestamps),
                IF call_args.start_time.present
                THEN Present(StripTz(call_args.start_time.dt))
                ELSE Absent)

(***************************************************************************)
(* Direct calls of BehaviorInterface.add_trials_to_nwbfile on a new file:  *)
(* the interface is constructed on a trial list file, aligned start times  *)
(* are set on it or not, and the trials are added.  The events of the      *)
(* trials play no part.                                                    *)
(***************************************************************************)
SoftTicks == {1, 5, 12}

\* the lists set_aligned_trial_start_times is given
AlignedLists == UNION {[1..n -> {Naive(1), Naive(3), Naive(5)}] : n \in 0..MaxTrials}

TrialsInit ==
    /\ \E n \in 0..MaxTrials : \E soft \in [1..n -> SoftTicks] :
          /\ ts = soft
          /\ NlxEventTTL = [i \in 1..n |-> <<>>]
          /\ NlxEventTS = [i \in 1..n |-> <<>>]
    /\ lfp_num_segments = 0
    /\ lfp_segment_len = 0
    /\ data_interface_objects = {"Behavior"}
    /\ stub_test \in BOOLEAN
    /\ session_start_time \in SessionStartTimes
    /\ event_mapping = {}
    /\ Fresh
    /\ pc = "trials"
    /\ call_args = NoCall
    /\ call_result = NoCall

\* lines 100-109; the converter calls it once, before the trials are added
set_aligned_trial_start_times ==
    /\ pc = "trials"
    /\ ~behavior_aligned_start_times.set
    /\ \E aligned_start_times \in AlignedLists :
          behavior_aligned_start_times' = SetTo(aligned_start_times)
    /\ UNCHANGED <<file_vars, option_vars, lfp_trial_start_times, nwb_trials, nwb_events,
                   nwb_lfp, pc, error, call_vars>>

TrialsNext ==
    \/ set_aligned_trial_start_times
    \/ add_trials_to_nwbfile

TrialsSpec == TrialsInit /\ [][TrialsNext]_vars

\* the number of trials add_trials_to_nwbfile reads (lines 138-140)
TrialsRead == IF stub_test THEN Min(Len(ts), StubTrials) ELSE Len(ts)

\* the datetimes the midpoints are to come from, and the wall-clock reading
\* they are counted from
MidpointsFrom ==
    IF behavior_aligned_start_times.set THEN behavior_aligned_start_times.value
    ELSE [i \in 1..TrialsRead |-> FromTimestamp(ts[i])]

MidpointReference ==
    IF session_start_time.present THEN session_start_time.dt.wall ELSE MidpointsFrom[1].wall

TrialsAdded == pc \in {"write", "failed"}

\* C21: with aligned start times set, one per trial read, the trials table
\* gets one row per aligned time, in order, with midpoint_time the aligned
\* time counted from the session start (from the first time when the
\* metadata has none), start_time 30 s before it and stop_time 30 s after
\* it; with no aligned start times set the rows come from ts in the same
\* way.  A time before the session start makes the call raise instead.
C21_OneRowPerAlignedTime ==
    (/\ TrialsAdded
     /\ behavior_aligned_start_times.set => Len(behavior_aligned_start_times.value) = TrialsRead
     /\ session_start_time.present \/ MidpointsFrom # <<>>) =>
        IF \E i \in 1..Len(MidpointsFrom) : MidpointsFrom[i].wall < MidpointReference
        THEN pc = "failed" /\ error = "ValueError" /\ nwb_trials = NoTrials
        ELSE /\ pc = "write"
             /\ nwb_trials.columns = {"midpoint_time"}
             /\ Len(nwb_trials.rows) = Len(MidpointsFrom)
             /\ \A i \in 1..Len(MidpointsFrom) :
                   LET row == nwb_trials.rows[i]
                   IN  /\ row.midpoint_time = MidpointsFrom[i].wall - MidpointReference
                       /\ row.start_time = row.midpoint_time - HalfTrial
                       /\ row.stop_time = row.midpoint_time + HalfTrial
                       /\ row.stop_time - row.start_time = 2 * HalfTrial

\* three rows were written from aligned start times that are not the
\* software timestamps of their trials
C21_Witness ==
    /\ pc = "write"
    /\ behavior_aligned_start_times.set
    /\ Len(nwb_trials.rows) = 3
    /\ nwb_trials.rows[1].midpoint_time < nwb_trials.rows[3].midpoint_time
    /\ \E i \in 1..3 : behavior_aligned_start_times.value[i] # FromTimestamp(ts[i])

\* C22: with aligned start times set whose count differs from the number
\* of trials read (at most the stub count under stub_test), the call
\* raises ValueError and the trials table has neither column nor row.
C22_CountMismatchRaises ==
    (/\ TrialsAdded
     /\ behavior_aligned_start_times.set
     /\ Len(behavior_aligned_start_times.value) # TrialsRead) =>
        /\ pc = "failed"
        /\ error = "ValueError"
        /\ nwb_trials = NoTrials

\* the call raised under stub_test on as many aligned start times as the
\* file has trials, none of them before the session start
C22_Witness ==
    /\ pc = "failed"
    /\ stub_test
    /\ Len(ts) > StubTrials
    /\ behavior_aligned_start_times.set
    /\ Len(behavior_aligned_start_times.value) = Len(ts)
    /\ ~session_start_time.present
    /\ \A i \in 1..Len(ts) :
          behavior_aligned_start_times.value[i].wall >= behavior_aligned_start_times.value[1].wall

\* C23: no row of the trials table has a negative start_time.
C23_StartTimesNonNegative ==
    \A i \in 1..Len(nwb_trials.rows) : nwb_trials.rows[i].start_time >= 0

(***************************************************************************)
(* Properties of the reconstruction of utils.py, continued.                *)
(***************************************************************************)
\* the start times of the call lie on one sample grid and do not decrease
SampleAligned ==
    \A i \in 2..Len(call_args.starts) :
        /\ call_args.starts[i] >= call_args.starts[i - 1]
        /\ (call_args.starts[i] - call_args.starts[i - 1]) % call_args.period = 0

\* C24: for start times on one sample grid that do not decrease, the
\* returned time axis has a time for every sample slot: two consecutive
\* times differ by exactly one period.
C24_NoMissingSlot ==
    (UtilsReturned /\ SampleAligned) =>
        \A j \in 1..(Len(call_result.out.time) - 1) :
            call_result.out.time[j + 1] - call_result.out.time[j] = call_args.period

\* C25: the returned time and signal have the same length; a returned
\* sample that is not NaN is sample k of a segment i at its nominal time
\* aligned_start_times[i] + k / fs; a returned sample of segment i is later
\* than every sample of the segments before it, so where segments overlap
\* the samples of the earlier one are the ones returned; and the first
\* segment is returned whole.
C25_SamplesKeepTheirTimes ==
    UtilsReturned =>
        LET time == call_result.out.time
            signal == call_result.out.signal
        IN  /\ Len(time) = Len(signal)
            /\ \A j \in 1..Len(signal) :
                  signal[j] # NaN =>
                      /\ signal[j][1] \in 1..call_args.num
                      /\ signal[j][2] \in 1..call_args.len
                      /\ time[j] = SampleTime(signal[j][1], signal[j][2])
                      /\ \A earlier \in 1..(signal[j][1] - 1) :
                            time[j] > SampleTime(earlier, call_args.len)
            /\ \A k \in 1..call_args.len :
                  signal[k] = <<1, k>> /\ time[k] = SampleTime(1, k)

\* a returned call of three segments: the second overlaps the first and
\* loses samples, the third follows a gap
C25_Witness ==
    /\ UtilsReturned
    /\ call_args.num = 3
    /\ call_args.starts[2] > call_args.starts[1]
    /\ call_args.starts[2] <= SampleTime(1, call_args.len)
    /\ Gap(3) > call_args.period
    /\ \E j \in 1..Len(call_result.out.signal) : call_result.out.signal[j][1] = 2

\* C30: a call of utils.py on a number of segments other than the number
\* of start times raises ValueError and returns neither time nor signal.
C30_CountMismatchRaises ==
    (call_result.fn = "utils" /\ call_args.num # Len(call_args.starts)) =>
        /\ call_result.out.raised = "ValueError"
        /\ call_result.out.time = <<>>
        /\ call_result.out.signal = <<>>

\* the call raised on two segments and three start times
C30_Witness ==
    /\ call_result.fn = "utils"
    /\ call_args.num = 2
    /\ Len(call_args.starts) = 3
    /\ call_result.out.raised = "ValueError"

(***************************************************************************)
(* Properties of the re-timing of the raw FSCV stream, continued.          *)
(***************************************************************************)
\* two fractions of the same value
SameValue(v, w) == v.num * w.den = w.num * v.den

\* C26: after the re-timing, the first timestamp get_timestamps returns is
\* the interpolated session-relative time of the first raw sample.
C26_FirstTimestampIsAlignedTime ==
    FscvReturned =>
        /\ call_result.timestamps.set
        /\ SameValue(call_result.timestamps.value[1], call_result.out.value[1])

(***************************************************************************)
(* Direct calls of BehaviorInterface.add_to_nwbfile on a new file: the     *)
(* events are added, then the trials.  The first trial has up to two       *)
(* events, the others at most one.                                         *)
(***************************************************************************)
EventfulTrials == TrialChoices({3}, {1, 5}, 2)

EventsInit ==
    /\ \E n \in 0..MaxTrials : \E first \in EventfulTrials : \E rest \in [2..n -> LeanTrials] :
          TrialListFile([i \in 1..n |-> IF i = 1 THEN first ELSE rest[i]])
    /\ lfp_num_segments = 0
    /\ lfp_segment_len = 0
    /\ data_interface_objects = {"Behavior"}
    /\ stub_test \in BOOLEAN
    /\ session_start_time \in SessionStartTimes
    /\ event_mapping \in {{trial_start_code}, Codes}
    /\ Fresh
    /\ pc = "events"
    /\ call_args = NoCall
    /\ call_result = NoCall

\* lines 279-280
EventsNext ==
    \/ add_events_to_nwbfile
    \/ add_trials_to_nwbfile

EventsSpec == EventsInit /\ [][EventsNext]_vars

\* the number of trials add_events_to_nwbfile processes (lines 223-229)
EventTrialsRead == IF stub_test THEN Min(Len(NlxEventTS), StubTrials) ELSE Len(NlxEventTS)

\* the wall-clock reading of event j of trial i
EventWall(i, j) == FromTimestamp(NlxEventTS[i][j]).wall

\* the wall-clock readings of the events of code c in the processed
\* trials, trial after trial
EventWallsOf(c) ==
    Concat([i \in 1..EventTrialsRead |->
               TimesWithCode(NlxEventTTL[i],
                             [j \in 1..Len(NlxEventTS[i]) |-> EventWall(i, j)], c)])

\* the differences between the instant of an event and the time recorded
\* for it, over all recorded events
RecordedOffsets ==
    UNION {{EventWallsOf(nwb_events.value[t].code)[k] - nwb_events.value[t].event_times[k] :
               k \in 1..Len(nwb_events.value[t].event_times)} :
           t \in 1..Len(nwb_events.value)}

\* C27: all recorded event times are counted from one and the same
\* instant, with or without a session_start_time in the metadata.
C27_CommonReference ==
    nwb_events.set => Cardinality(RecordedOffsets) <= 1

\* the reading the event times of trial i are counted from (line 236 with
\* utils.py line 52)
TrialReference(i) ==
    IF session_start_time.present THEN session_start_time.dt.wall ELSE EventWall(i, 1)

\* the times of the events of code c as they are made relative, trial
\* after trial
EventTimesOf(c) ==
    Concat([i \in 1..EventTrialsRead |->
               TimesWithCode(NlxEventTTL[i],
                             [j \in 1..Len(NlxEventTS[i]) |-> EventWall(i, j) - TrialReference(i)],
                             c)])

\* the codes of the events of the processed trials
CodesSeen ==
    UNION {{NlxEventTTL[i][j] : j \in 1..Len(NlxEventTTL[i])} : i \in 1..EventTrialsRead}

\* no processed trial lacks a reference or has an event before it
EventTimesValid ==
    \A i \in 1..EventTrialsRead :
        /\ session_start_time.present \/ NlxEventTS[i] # <<>>
        /\ \A j \in 1..Len(NlxEventTS[i]) : EventWall(i, j) >= TrialReference(i)

\* C29: the events are added whatever the mapping holds; the table gets
\* one event type for every code seen in the processed trials that has an
\* entry in the mapping, holding the times of all events of that code in
\* trial order, and none for a code without entry.
C29_UnmappedCodesSkipped ==
    pc # "events" =>
        /\ nwb_events.set <=> EventTimesValid
        /\ nwb_events.set =>
              LET types == nwb_events.value
              IN  /\ {types[t].code : t \in 1..Len(types)} = CodesSeen \cap event_mapping
                  /\ \A t, u \in 1..Len(types) : types[t].code = types[u].code => t = u
                  /\ \A t \in 1..Len(types) :
                        types[t].event_times = EventTimesOf(types[t].code)

\* the events were added under a mapping without code 64: the first trial
\* has an event of code 64 before one of the trial start code, and a later
\* trial has a trial start event at another time
C29_Witness ==
    /\ nwb_events.set
    /\ event_mapping = {trial_start_code}
    /\ Len(ts) >= 2
    /\ NlxEventTTL[1] = <<64, trial_start_code>>
    /\ Len(nwb_events.value) = 1
    /\ Len(nwb_events.value[1].event_times) >= 2
    /\ nwb_events.value[1].event_times[1] # nwb_events.value[1].event_times[2]

(***************************************************************************)
(* Properties of the session, continued.                                   *)
(***************************************************************************)
\* C28: in a session with Behavior and LFP whose trials and LFP series are
\* both written, the LFP series comes from the aligned start times of the
\* trials table, and its first timestamp is the start_time of the first
\* trial: the first aligned start time, counted from the session start,
\* minus 30 s.
C28_LfpStartsWithFirstTrial ==
    (nwb_lfp.set /\ nwb_trials.rows # <<>>) =>
        /\ LfpStartsUsed = Prefix(Aligned, Len(LfpStartsUsed))
        /\ nwb_lfp.time # <<>>
        /\ nwb_lfp.time[1] = nwb_trials.rows[1].start_time
        /\ nwb_lfp.time[1] =
               Aligned[1].wall
               - (IF session_start_time.present THEN session_start_time.dt.wall
                  ELSE Aligned[1].wall)
               - HalfTrial

=============================================================================
